---- MODULE Spec2Model ----
(***************************************************************************)
(* A model of netsplode: the connection tracker and its socket shim        *)
(* (netsplode/context.py) and the reset engine (netsplode/networking.py).  *)
(*                                                                         *)
(* Sockets are the objects 1..NumSocks.  A socket object is "unused" until *)
(* the program constructs it, and then carries the state of its file       *)
(* descriptor as the operating system sees it.  The answers of the         *)
(* operating system and of the packet library (does connect block, can we  *)
(* sniff, which frame was captured) are inputs, drawn with \E.             *)
(***************************************************************************)
EXTENDS Naturals, FiniteSets, Sequences

\* ------------------------------------------------------------------ bounds
NumSocks == 3
NumCallers == 2
NumResetCallers == 1
NumCalls == 2
NumEngineSocks == 1
NumResetSocks == 2
NumWorkers == 1
\* The width of a TCP sequence number in the model, standing for 32 bits.
SeqBits == 16

Socks == 1..NumSocks
Callers == 1..NumCallers
Calls == 1..NumCalls

VARIABLES
    sockSt,        \* socket -> "unused" | "open" | "connecting" | "connected" | "closed"
    proto,         \* socket -> "TCP" | "OTHER"      (socket.proto)
    cls,           \* socket -> the class that constructed it (a constructor)
    linger,        \* socket -> TRUE once SO_LINGER was set to (on, 0 seconds)
    clients,       \* tracker._client_tcp_connections
    servers,       \* tracker._server_tcp_connections
    rpc,           \* tracker reset caller -> its position in reset_*_tcp_connections
    rkind,         \* tracker reset caller -> "client" | "server" | "all"
    rblocking,     \* tracker reset caller -> its blocking argument
    to_reset,      \* tracker reset caller -> its snapshot
    queue,         \* tracker reset caller -> connections of its batch not yet handed to a worker
    attempts,      \* history: tracker reset caller -> the <<connection, outcome>> of
                   \* every reset_connection of its batch that is over
    addedSince,    \* history: connections added to a live set since the caller's snapshot
    call,          \* reset_connection invocation -> its arguments, position and record
    socket_socket, \* the process-wide socket.socket
    sessPc,        \* tracking session -> position in track_connections
    original_socket, \* tracking session -> the constructor it saved on entry
    entryCtor,     \* history: socket.socket when the session was entered
    lastEv         \* history: the step taken last, as the application observes it

sockVars == <<sockSt, proto, cls, linger>>
resetVars == <<rpc, rkind, rblocking, to_reset, queue, attempts>>
sessVars == <<socket_socket, sessPc, original_socket, entryCtor>>
vars == <<sockSt, proto, cls, linger, clients, servers, rpc, rkind, rblocking,
          to_reset, queue, attempts, addedSince, call, socket_socket, sessPc,
          original_socket, entryCtor, lastEv>>

\* A constructor (a value of socket.socket, the class of a socket) is 0, the
\* original class, or the number of the session whose shim class it is.
\* TheSession is the session whose tracker the model follows.
Sessions == {1, 2}
TheSession == 1
OrigCtor == 0

NoEv == [op |-> "none"]
\* op: the operation; sock: its socket; ans: what the operating system answered;
\* res: what the caller of the operation got back.
Ev(o, s, a, r) == [op |-> o, sock |-> s, ans |-> a, res |-> r]
\* A call whose system call raised an error other than BlockingIOError: the
\* error reaches the caller and the tracker is not touched.
Failed(o) == [op |-> "failed", of |-> o, res |-> "OSError"]
\* For shutdown and close, also: was the socket in a tracker set before.
EvT(o, s, a, r) == [op |-> o, sock |-> s, ans |-> a, res |-> r,
                    was |-> s \in clients \cup servers]

Made == {s \in Socks : sockSt[s] # "unused"}
\* Socket objects are constructed in the order 1, 2, ...
IsNextSock(s) == s \in Socks \ Made /\ \A t \in Socks \ Made : s <= t

Protos == {"TCP", "OTHER"}
IPPROTO_TCP == "TCP"

\* A socket built by session i's NetsplodeConnectionsTrackingSocket forwards
\* its lifecycle events to that session's tracker.
Shimmed(s) == cls[s] = TheSession

\* ----------------------------------------------------- ConnectionTracker
add_client_tcp_connection(c) == clients \cup {c}

add_server_tcp_connection(c) == servers \cup {c}

\* remove_tcp_connection discards from both sets; the pair is <<clients', servers'>>.
remove_tcp_connection(c) == <<clients \ {c}, servers \ {c}>>

\* history: what the callers in flight have seen added / removed by lifecycle events
NoteAdded(c, which) ==
    [i \in Callers |->
        IF rpc[i] \in {"wait", "remove", "remove2"} /\ rkind[i] \in {which, "all"}
        THEN addedSince[i] \cup {c} ELSE addedSince[i]]

NoteRemoved(c) == [i \in Callers |-> addedSince[i] \ {c}]

\* ... and removed by the final step of another reset call
NoteRemovedBy(j, gone) ==
    [i \in Callers |-> IF i = j THEN addedSince[i] ELSE addedSince[i] \ gone]

\* ------------------------------------------- socket construction (shimmed)
Create(s, p) ==
    /\ IsNextSock(s)
    /\ sockSt' = [sockSt EXCEPT ![s] = "open"]
    /\ proto' = [proto EXCEPT ![s] = p]
    /\ cls' = [cls EXCEPT ![s] = socket_socket]
    /\ lastEv' = NoEv
    /\ UNCHANGED <<linger, clients, servers, resetVars, addedSince, call, sessVars>>

\* What the operating system answers to connect(2), by the state of the socket.
ConnectAnswers(s) ==
    CASE sockSt[s] = "open" -> {"ok", "would_block", "error"}
      [] sockSt[s] = "connecting" -> {"ok", "would_block", "error"}
      [] OTHER -> {"error"}

AfterConnect(s, ans) ==
    CASE ans = "ok" -> "connected"
      [] ans = "would_block" -> "connecting"
      [] OTHER -> sockSt[s]

\* connect registers the socket when the system call succeeded and when it
\* raised BlockingIOError; any other error leaves the tracker alone.
ConnectTracksOnSuccessOnly(s, ans) == ans = "ok" /\ proto[s] = IPPROTO_TCP

ConnectTracks(s, ans) == ans \in {"ok", "would_block"} /\ proto[s] = IPPROTO_TCP

\* NetsplodeConnectionsTrackingSocket.connect
connect(s, ans) ==
    /\ sockSt[s] # "unused" /\ Shimmed(s)
    /\ ans \in ConnectAnswers(s)
    /\ sockSt' = [sockSt EXCEPT ![s] = AfterConnect(s, ans)]
    /\ IF ConnectTracks(s, ans)
       THEN /\ clients' = add_client_tcp_connection(s)
            /\ addedSince' = NoteAdded(s, "client")
       ELSE UNCHANGED <<clients, addedSince>>
    /\ lastEv' = CASE ans = "ok" -> Ev("connect", s, ans, "returned")
                    [] ans = "would_block" -> Ev("connect", s, ans, "BlockingIOError")
                    [] OTHER -> Failed("connect")
    /\ UNCHANGED <<proto, cls, linger, servers, resetVars, call, sessVars>>

\* NetsplodeConnectionsTrackingSocket.connect_ex: the failure is a returned
\* status, except for a bad address, which raises before the system call.
connect_ex(s, ans) ==
    /\ sockSt[s] # "unused" /\ Shimmed(s)
    /\ ans \in ConnectAnswers(s) \cup {"bad_address"}
    /\ sockSt' = [sockSt EXCEPT ![s] = AfterConnect(s, ans)]
    /\ IF ans # "bad_address" /\ proto[s] = IPPROTO_TCP
       THEN /\ clients' = add_client_tcp_connection(s)
            /\ addedSince' = NoteAdded(s, "client")
       ELSE UNCHANGED <<clients, addedSince>>
    /\ lastEv' = CASE ans = "ok" -> Ev("connect_ex", s, ans, "0")
                    [] ans = "bad_address" -> Failed("connect_ex")
                    [] OTHER -> Ev("connect_ex", s, ans, "errno")
    /\ UNCHANGED <<proto, cls, linger, servers, resetVars, call, sessVars>>

\* The object accept registers: the socket the system call returned, not the
\* listening socket.
AcceptedListener(s, conn) == s

Accepted(s, conn) == conn

\* NetsplodeConnectionsTrackingSocket.accept: socket.accept builds the new
\* socket with the process-wide constructor and the listener's proto.
accept(s, ans) ==
    /\ sockSt[s] # "unused" /\ Shimmed(s)
    /\ ans \in (IF sockSt[s] = "open" /\ Made # Socks THEN {"ok", "error"} ELSE {"error"})
    /\ IF ans = "ok"
       THEN \E conn \in Socks :
            /\ IsNextSock(conn)
            /\ sockSt' = [sockSt EXCEPT ![conn] = "connected"]
            /\ proto' = [proto EXCEPT ![conn] = proto[s]]
            /\ cls' = [cls EXCEPT ![conn] = socket_socket]
            /\ IF proto[s] = IPPROTO_TCP
               THEN /\ servers' = add_server_tcp_connection(Accepted(s, conn))
                    /\ addedSince' = NoteAdded(Accepted(s, conn), "server")
               ELSE UNCHANGED <<servers, addedSince>>
            /\ lastEv' = Ev("accept", conn, ans, "returned")
       ELSE /\ UNCHANGED <<sockSt, proto, cls, servers, addedSince>>
            /\ lastEv' = Failed("accept")
    /\ UNCHANGED <<linger, clients, resetVars, call, sessVars>>

SHUT_RD == "SHUT_RD"
SHUT_WR == "SHUT_WR"
SHUT_RDWR == "SHUT_RDWR"
Hows == {SHUT_RD, SHUT_WR, SHUT_RDWR}

\* shutdown unregisters the socket only for SHUT_RDWR.
ShutdownRemovesAlways(how) == TRUE

ShutdownRemoves(how) == how = SHUT_RDWR

\* NetsplodeConnectionsTrackingSocket.shutdown: shutdown(2) fails on a socket
\* that is not connected, and then the tracker is not reached.
shutdown(s, how) ==
    /\ sockSt[s] # "unused" /\ Shimmed(s)
    /\ IF sockSt[s] \in {"connected", "connecting"}
       THEN /\ IF ShutdownRemoves(how)
               THEN /\ clients' = remove_tcp_connection(s)[1]
                    /\ servers' = remove_tcp_connection(s)[2]
                    /\ addedSince' = NoteRemoved(s)
               ELSE UNCHANGED <<clients, servers, addedSince>>
            /\ lastEv' = EvT("shutdown", s, how, "returned")
       ELSE /\ UNCHANGED <<clients, servers, addedSince>>
            /\ lastEv' = Failed("shutdown")
    /\ UNCHANGED <<sockVars, resetVars, call, sessVars>>

\* NetsplodeConnectionsTrackingSocket.close, as a change of the socket and the
\* tracker: <<sockSt', clients', servers'>>.
close(s) ==
    /\ sockSt[s] # "unused" /\ Shimmed(s)
    /\ sockSt' = [sockSt EXCEPT ![s] = "closed"]
    /\ clients' = remove_tcp_connection(s)[1]
    /\ servers' = remove_tcp_connection(s)[2]
    /\ addedSince' = NoteRemoved(s)
    /\ lastEv' = EvT("close", s, "ok", "returned")
    /\ UNCHANGED <<proto, cls, linger, resetVars, call, sessVars>>

\* The operating system completes (or fails) a connect that was in progress;
\* the application learns of it by polling, not through the shim.
Establish(s, ok) ==
    /\ sockSt[s] = "connecting"
    /\ sockSt' = [sockSt EXCEPT ![s] = IF ok THEN "connected" ELSE "open"]
    /\ lastEv' = NoEv
    /\ UNCHANGED <<proto, cls, linger, clients, servers, resetVars, addedSince, call, sessVars>>

\* ------------------------------------------------------------ reset engine
\* socket_for_connection returns None when it finds no socket.
NoSock == 0
NoFrame == [flags |-> {"none"}]
\* The flag sets of the frames the sniffer may hand back.
FlagSets == {{"A"}, {"F", "A"}, {"R"}, {"S", "A"}}
\* A captured frame: the addresses and ports of its IP and TCP headers, its
\* flags, its sequence number, its acknowledgment number and its window.
FramesOf(addrs, ports, flagSets, seqs, acks, windows) ==
    [src : addrs, dst : addrs, sport : ports, dport : ports, flags : flagSets,
     seq : seqs, ack : acks, window : windows]
\* The frames the sniffer hands to a reset of the session's socket: the two
\* endpoints are fixed, only the flags vary.
Frames ==
    {f \in FramesOf({"10.0.0.1", "10.0.0.2"}, {80, 4000}, FlagSets, {7}, {1000}, {512}) :
        f.src = "10.0.0.1" /\ f.dst = "10.0.0.2" /\ f.sport = 4000 /\ f.dport = 80}
\* reset_tcp_stream_of_eth_frame(frame, severity=50)
severity == 50

\* use_abortive_close: True, False or None (unset).
Modes == {"True", "False", "None"}

\* A connection object: a socket, an asyncio transport or stream writer (its
\* extra info names a socket, or nothing), an object with a .socket, an object
\* with a .transport_stream.socket, or something else.
Conn(kind, s) == [kind |-> kind, sock |-> s]
NoConn == Conn("opaque", NoSock)

socket_for_connection(connection) ==
    CASE connection.kind = "socket" -> connection.sock
      [] connection.kind = "transport" -> connection.sock
      [] connection.kind = "has_socket" -> connection.sock
      [] connection.kind = "has_transport_stream" -> connection.sock
      [] OTHER -> NoSock

FreshCall ==
    [pc |-> "free", owner |-> "none", batch |-> 0, conn |-> NoConn, mode |-> "None",
     sock |-> NoSock, can |-> "unasked", frame |-> NoFrame, sent |-> 0, log |-> {},
     out |-> "none", detached |-> FALSE, wire |-> <<>>]

\* A running reset_connection(connection, blocking=True, delay, use_abortive_close).
StartedCall(owner, batch, connection, delay, mode) ==
    [FreshCall EXCEPT !.pc = IF delay THEN "sleep" ELSE "select",
                      !.owner = owner, !.batch = batch, !.conn = connection,
                      !.mode = mode]

Done(c, out) == [c EXCEPT !.pc = "done", !.out = out]
Logged(c, what) == [c EXCEPT !.log = @ \cup {what}]

\* Who runs the body of the call and gets its result or its error: the caller
\* itself, or with blocking false a thread that nobody joins.
OwnerAlwaysCaller(blocking) == "caller"

Owner(blocking) == IF blocking THEN "caller" ELSE "thread"

\* reset_connection called by the application.  With blocking false it starts
\* a thread that runs the blocking call, and returns.
reset_connection(k, connection, blocking, delay, mode) ==
    /\ call[k].pc = "free"
    /\ connection.sock = NoSock \/ connection.sock \in Made
    /\ connection.kind = "opaque" => connection.sock = NoSock
    /\ connection.kind = "socket" => connection.sock # NoSock
    /\ call' = [call EXCEPT ![k] =
            [StartedCall(Owner(blocking), 0, connection, delay, mode)
                EXCEPT !.detached = ~blocking]]
    /\ lastEv' = IF blocking THEN NoEv
                 ELSE [op |-> "reset_connection", call |-> k, res |-> "returned"]
    /\ UNCHANGED <<sockVars, clients, servers, resetVars, addedSince, sessVars>>

\* sleep(delay) is over.
Sleep(k) ==
    /\ call[k].pc = "sleep"
    /\ call' = [call EXCEPT ![k].pc = "select"]
    /\ lastEv' = NoEv
    /\ UNCHANGED <<sockVars, clients, servers, resetVars, addedSince, sessVars>>

\* Whether the strategy selection calls _can_sniff: not for an explicit True
\* (the abortive close has returned before), not for an explicit False (the
\* "and" stops at its first operand).
AsksCanSniffFirst(mode) == mode # "False"

AsksCanSniff(mode) == mode # "True" /\ mode # "False"

\* The step after the selection, for a socket that was found: "linger" (go to
\* abortively_close_socket), "peers" (go to RST injection) or "done".
AfterSelection(mode, canSniff, isTcp) ==
    CASE mode = "True" -> "linger"
      [] mode # "False" /\ ~canSniff -> "linger"
      [] isTcp -> "peers"
      [] OTHER -> "done"

\* How the call ends when no socket was found: "if sock:" is false and the
\* function falls off its end.
SkipOutcomeRaises == "raised"

SkipOutcome == "returned"

\* Lines 43-51 of reset_connection: resolve the connection, select the strategy.
Select(k, canSniff) ==
    /\ call[k].pc = "select"
    /\ LET c == call[k]
           sock == socket_for_connection(c.conn)
           probed == sock # NoSock /\ AsksCanSniff(c.mode)
           \* connection is not read again once it is resolved
           c1 == [c EXCEPT !.sock = sock, !.conn = NoConn]
           c2 == IF probed
                 THEN [Logged(c1, "probe") EXCEPT !.can = IF canSniff THEN "yes" ELSE "no"]
                 ELSE c1
           to == AfterSelection(c.mode, canSniff, proto[sock] = IPPROTO_TCP)
       IN  /\ (~probed => canSniff)
           /\ call' = [call EXCEPT ![k] =
                  IF sock = NoSock THEN Done(c1, SkipOutcome)
                  ELSE IF to = "done" THEN Done(c2, "returned")
                  ELSE [c2 EXCEPT !.pc = to]]
    /\ lastEv' = NoEv
    /\ UNCHANGED <<sockVars, clients, servers, resetVars, addedSince, sessVars>>

\* getpeername answers for a connected socket only.
PeersAlwaysKnown(st) == TRUE

PeersKnown(st) == st = "connected"

\* _socket_peers: getpeername raises on a socket that is not connected.
socket_peers(k) ==
    /\ call[k].pc = "peers"
    /\ call' = [call EXCEPT ![k] =
            IF PeersKnown(sockSt[call[k].sock])
            THEN [Logged(call[k], "getpeername") EXCEPT !.pc = "capture"]
            ELSE Done(Logged(call[k], "getpeername"), "raised")]
    /\ lastEv' = NoEv
    /\ UNCHANGED <<sockVars, clients, servers, resetVars, addedSince, sessVars>>

\* After a capture that timed out: abortive close unless use_abortive_close is
\* explicitly False.
FallsBackAlways(mode) == TRUE

FallsBackNever(mode) == FALSE

FallsBack(mode) == mode # "False"

\* reset_tcp_stream_of_peers up to the end of the capture: sniff hands back
\* one matching frame, or none when the timeout passes.
capture_tcp_frame_between_peers(k, f) ==
    /\ call[k].pc = "capture"
    /\ call' = [call EXCEPT ![k] =
            LET c == [Logged(call[k], "sniff") EXCEPT !.frame = f]
            IN  IF f # NoFrame THEN [c EXCEPT !.pc = "inject"]
                ELSE IF FallsBack(c.mode) THEN [c EXCEPT !.pc = "linger"]
                ELSE Done(c, "returned")]
    /\ lastEv' = NoEv
    /\ UNCHANGED <<sockVars, clients, servers, resetVars, addedSince, sessVars>>

\* tcp_payload.flags & 'FRS'
AlreadyClosingFinOnly(f) == "F" \in f.flags

AlreadyClosing(f) == f.flags \cap {"F", "R", "S"} # {}

\* reset_packet: an RST that looks as if it came from the other direction.
ForgedUnswapped(frame) ==
    [src |-> frame.src, dst |-> frame.dst, sport |-> frame.sport, dport |-> frame.dport,
     flags |-> {"R"}, seq |-> frame.ack]

Forged(frame) ==
    [src |-> frame.dst, dst |-> frame.src, sport |-> frame.dport, dport |-> frame.sport,
     flags |-> {"R"}, seq |-> frame.ack]

\* for i in range(n): ip_payload[TCP].seq += (i * window); send(reset_packet)
\* The statement in the loop adds to the sequence number of the captured
\* frame; reset_packet is sent as it was built.  The result is the captured
\* frame after the loop and the frames sent, in order.
RECURSIVE SendLoop(_, _, _, _, _, _)
SendLoop(i, n, frame, window, reset_packet, wire) ==
    IF i = n THEN [frame |-> frame, wire |-> wire]
    ELSE SendLoop(i + 1, n, [frame EXCEPT !.seq = @ + i * window], window,
                  reset_packet, Append(wire, reset_packet))

\* reset_tcp_stream_of_eth_frame: nothing for a frame of a closing connection,
\* else severity forged frames are sent; could_reset is True either way.
reset_tcp_stream_of_eth_frame(k) ==
    /\ call[k].pc = "inject"
    /\ call' = [call EXCEPT ![k] =
            IF AlreadyClosing(call[k].frame)
            THEN Done(call[k], "returned")
            ELSE LET frame == call[k].frame
                     after == SendLoop(0, severity, frame, frame.window, Forged(frame), <<>>)
                 IN  Done([Logged(call[k], "send") EXCEPT !.sent = Len(after.wire),
                                                         !.wire = after.wire,
                                                         !.frame = after.frame],
                          "returned")]
    /\ lastEv' = NoEv
    /\ UNCHANGED <<sockVars, clients, servers, resetVars, addedSince, sessVars>>

\* abortively_close_socket, first statement: setsockopt raises on a closed socket.
abortively_close_socket(k) ==
    /\ call[k].pc = "linger"
    /\ LET s == call[k].sock IN
       IF sockSt[s] = "closed"
       THEN /\ call' = [call EXCEPT ![k] = Done(call[k], "raised")]
            /\ UNCHANGED linger
       ELSE /\ call' = [call EXCEPT ![k] = [Logged(call[k], "setsockopt") EXCEPT !.pc = "close"]]
            /\ linger' = [linger EXCEPT ![s] = TRUE]
    /\ lastEv' = NoEv
    /\ UNCHANGED <<sockSt, proto, cls, clients, servers, resetVars, addedSince, sessVars>>

\* abortively_close_socket, second statement: sock.close(), which is the shim's
\* close for a socket the shim built.
sock_close(k) ==
    /\ call[k].pc = "close"
    /\ LET s == call[k].sock IN
       /\ sockSt' = [sockSt EXCEPT ![s] = "closed"]
       /\ IF Shimmed(s)
          THEN /\ clients' = remove_tcp_connection(s)[1]
               /\ servers' = remove_tcp_connection(s)[2]
               /\ addedSince' = NoteRemoved(s)
          ELSE UNCHANGED <<clients, servers, addedSince>>
       /\ lastEv' = EvT("close", s, "ok", "returned")
    /\ call' = [call EXCEPT ![k] = Done(Logged(call[k], "close"), "returned")]
    /\ UNCHANGED <<proto, cls, linger, resetVars, sessVars>>

\* The call is over: a blocking caller gets the result or the error; the
\* error of a detached thread or of a pool task reaches nobody.
Finish(k) ==
    /\ call[k].pc = "done"
    /\ call' = [call EXCEPT ![k] = FreshCall]
    /\ lastEv' = IF call[k].owner = "caller"
                 THEN [op |-> "reset_connection", call |-> k, res |-> call[k].out]
                 ELSE NoEv
    /\ attempts' = IF call[k].owner = "pool"
                   THEN [attempts EXCEPT ![call[k].batch] =
                            @ \cup {<<call[k].sock, call[k].out>>}]
                   ELSE attempts
    /\ UNCHANGED <<sockVars, clients, servers, rpc, rkind, rblocking, to_reset, queue,
                   addedSince, sessVars>>

\* The steps of a call after its delay, if it has one.
EngineSteps ==
    \/ \E k \in Calls, canSniff \in BOOLEAN : Select(k, canSniff)
    \/ \E k \in Calls : socket_peers(k)
    \/ \E k \in Calls, f \in Frames \cup {NoFrame} : capture_tcp_frame_between_peers(k, f)
    \/ \E k \in Calls : reset_tcp_stream_of_eth_frame(k)
    \/ \E k \in Calls : abortively_close_socket(k)
    \/ \E k \in Calls : sock_close(k)
    \/ \E k \in Calls : Finish(k)

Init ==
    /\ sockSt = [s \in Socks |-> "unused"]
    /\ proto = [s \in Socks |-> "OTHER"]
    /\ cls = [s \in Socks |-> OrigCtor]
    /\ linger = [s \in Socks |-> FALSE]
    /\ clients = {}
    /\ servers = {}
    /\ rpc = [i \in Callers |-> "idle"]
    /\ rkind = [i \in Callers |-> "client"]
    /\ rblocking = [i \in Callers |-> TRUE]
    /\ to_reset = [i \in Callers |-> {}]
    /\ queue = [i \in Callers |-> {}]
    /\ attempts = [i \in Callers |-> {}]
    /\ addedSince = [i \in Callers |-> {}]
    /\ call = [k \in Calls |-> FreshCall]
    /\ socket_socket = TheSession
    /\ sessPc = [i \in Sessions |-> IF i = TheSession THEN "in" ELSE "out"]
    /\ original_socket = [i \in Sessions |-> OrigCtor]
    /\ entryCtor = [i \in Sessions |-> OrigCtor]
    /\ lastEv = NoEv

ShimNext ==
    \/ \E s \in Socks, p \in Protos : Create(s, p)
    \/ \E s \in Socks, ans \in {"ok", "would_block", "error"} : connect(s, ans)
    \/ \E s \in Socks, ans \in {"ok", "would_block", "error", "bad_address"} : connect_ex(s, ans)
    \/ \E s \in Socks, ans \in {"ok", "error"} : accept(s, ans)
    \/ \E s \in Socks, how \in Hows : shutdown(s, how)
    \/ \E s \in Socks : close(s)
    \/ \E s \in Socks, ok \in BOOLEAN : Establish(s, ok)

\* The tracking session of TheSession: every socket is built by its shim.
Next == ShimNext

Spec == Init /\ [][Next]_vars

\* ------------------------------------------------- tracker reset operations
ResetKinds == {"client", "server", "all"}

\* to_reset: a copy of the client set, a copy of the server set, or their union.
Snapshot(kind) ==
    CASE kind = "client" -> clients
      [] kind = "server" -> servers
      [] OTHER -> clients \cup servers

\* live -= to_reset
RemoveAll(live, snapshot) == {}

Difference(live, snapshot) == live \ snapshot

\* reset_client_tcp_connections / reset_server_tcp_connections /
\* reset_tcp_connections up to the return of _reset_connections' dispatch: the
\* snapshot is taken and every connection of it is submitted to the pool.
\* A blocking call then waits for the pool; a non-blocking one has started a
\* thread that waits for it, and goes on.
reset_tcp_connections(i, kind, blocking) ==
    /\ rpc[i] = "idle"
    /\ rkind' = [rkind EXCEPT ![i] = kind]
    /\ rblocking' = [rblocking EXCEPT ![i] = blocking]
    /\ to_reset' = [to_reset EXCEPT ![i] = Snapshot(kind)]
    /\ queue' = [queue EXCEPT ![i] = Snapshot(kind)]
    /\ rpc' = [rpc EXCEPT ![i] = IF blocking THEN "wait" ELSE "remove"]
    /\ attempts' = [attempts EXCEPT ![i] = {}]
    /\ addedSince' = [addedSince EXCEPT ![i] = {}]
    /\ lastEv' = NoEv
    /\ UNCHANGED <<sockVars, clients, servers, call, sessVars>>

\* threads.map(reset_connection, connections): a worker of the pool starts
\* reset_connection(c) with the default arguments.
WorkerTake(i, c, k) ==
    /\ c \in queue[i]
    /\ call[k].pc = "free"
    /\ queue' = [queue EXCEPT ![i] = @ \ {c}]
    /\ call' = [call EXCEPT ![k] = StartedCall("pool", i, Conn("socket", c), FALSE, "None")]
    /\ lastEv' = NoEv
    /\ UNCHANGED <<sockVars, clients, servers, rpc, rkind, rblocking, to_reset,
                   attempts, addedSince, sessVars>>

BatchOver(i) == queue[i] = {} /\ \A k \in Calls : call[k].batch # i

\* What _reset_connections hands to its caller, given the outcomes of the
\* tasks: the iterator that map returns is never read, so the error of a task
\* stays in its future.
BatchOutcomeFirstError(outs) == IF "raised" \in outs THEN "raised" ELSE "returned"

BatchOutcome(outs) == "returned"

\* The with block of the pool ends: every task of the batch is over.
PoolJoin(i) ==
    /\ rpc[i] = "wait"
    /\ BatchOver(i)
    /\ LET out == BatchOutcome({a[2] : a \in attempts[i]}) IN
        /\ rpc' = [rpc EXCEPT ![i] = IF out = "raised" THEN "raised" ELSE "remove"]
        /\ lastEv' = IF out = "raised"
                     THEN [op |-> "tracker_reset", caller |-> i, res |-> "raised"]
                     ELSE NoEv
    /\ UNCHANGED <<sockVars, clients, servers, rkind, rblocking, to_reset, queue,
                   attempts, addedSince, call, sessVars>>

Returned(i) == [op |-> "tracker_reset", caller |-> i, res |-> "returned"]

\* The removal of the snapshot from the live set; reset_tcp_connections
\* removes from the client set first and from the server set in a second step.
RemoveStep(i) ==
    /\ rpc[i] = "remove"
    /\ IF rkind[i] = "server"
       THEN /\ servers' = Difference(servers, to_reset[i])
            /\ UNCHANGED clients
       ELSE /\ clients' = Difference(clients, to_reset[i])
            /\ UNCHANGED servers
    /\ rpc' = [rpc EXCEPT ![i] = IF rkind[i] = "all" THEN "remove2" ELSE "returned"]
    /\ addedSince' = NoteRemovedBy(i, to_reset[i])
    /\ lastEv' = IF rkind[i] = "all" THEN NoEv ELSE Returned(i)
    /\ UNCHANGED <<sockVars, rkind, rblocking, to_reset, queue, attempts, call, sessVars>>

RemoveStep2(i) ==
    /\ rpc[i] = "remove2"
    /\ servers' = Difference(servers, to_reset[i])
    /\ rpc' = [rpc EXCEPT ![i] = "returned"]
    /\ addedSince' = NoteRemovedBy(i, to_reset[i])
    /\ lastEv' = Returned(i)
    /\ UNCHANGED <<sockVars, clients, rkind, rblocking, to_reset, queue, attempts, call,
                   sessVars>>

\* Tracker resets with the lifecycle events of the session's TCP sockets
\* going on beside them.
ResetSocks == 1..NumResetSocks
Workers == 1..NumWorkers
\* The threads that call a tracker reset while lifecycle events go on.
ResetCallers == 1..NumResetCallers

ResetNext ==
    \/ \E s \in ResetSocks : Create(s, IPPROTO_TCP)
    \/ \E s \in ResetSocks : connect(s, "ok")
    \/ \E s \in ResetSocks : Made # ResetSocks /\ accept(s, "ok")
    \/ \E s \in ResetSocks : close(s)
    \/ \E i \in ResetCallers, kind \in ResetKinds, b \in BOOLEAN : reset_tcp_connections(i, kind, b)
    \/ \E i \in ResetCallers, c \in ResetSocks, k \in Workers : WorkerTake(i, c, k)
    \/ \E i \in ResetCallers : PoolJoin(i)
    \/ \E i \in ResetCallers : RemoveStep(i)
    \/ \E i \in ResetCallers : RemoveStep2(i)
    \/ EngineSteps

ResetSpec == Init /\ [][ResetNext]_vars

\* Two threads call tracker resets at the same time.  The application built
\* and tracked its connections before (connect, accept, connect_ex on a
\* connected socket) and is quiet while a call is in flight, so the only
\* steps that interleave are the snapshots, the resets and the removals.
Quiet == \A i \in Callers : rpc[i] = "idle"

DuelNext ==
    \/ \E s \in ResetSocks : Quiet /\ Create(s, IPPROTO_TCP)
    \/ \E s \in ResetSocks : Quiet /\ connect(s, "ok")
    \/ \E s \in ResetSocks : Quiet /\ Made # ResetSocks /\ accept(s, "ok")
    \/ \E s \in ResetSocks : Quiet /\ connect_ex(s, "error")
    \/ \E i \in Callers, kind \in ResetKinds, b \in BOOLEAN : reset_tcp_connections(i, kind, b)
    \/ \E i \in Callers, c \in ResetSocks, k \in Workers : WorkerTake(i, c, k)
    \/ \E i \in Callers : PoolJoin(i)
    \/ \E i \in Callers : RemoveStep(i)
    \/ \E i \in Callers : RemoveStep2(i)
    \/ EngineSteps

DuelSpec == Init /\ [][DuelNext]_vars

\* The reset engine, called directly on sockets made during the session.
EngineSocks == 1..NumEngineSocks
EngineConns ==
    {Conn("socket", s) : s \in EngineSocks}
        \cup {Conn("transport", s) : s \in EngineSocks \cup {NoSock}}
        \cup {NoConn}

EngineNext ==
    \/ \E s \in EngineSocks, p \in Protos : Create(s, p)
    \/ \E s \in EngineSocks : connect(s, "ok")
    \/ \E s \in EngineSocks : close(s)
    \/ \E k \in Calls, cn \in EngineConns, b \in BOOLEAN, d \in BOOLEAN, m \in Modes :
            reset_connection(k, cn, b, d, m)
    \/ \E k \in Calls : Sleep(k)
    \/ EngineSteps

EngineSpec == Init /\ [][EngineNext]_vars

\* RST injection by itself: a reset of the session's connected TCP socket has
\* captured a frame, any frame of the bounded set, and is about to call
\* reset_tcp_stream_of_eth_frame.
SeqSpace == 2 ^ SeqBits
ForgeFrames ==
    FramesOf({"10.0.0.1", "10.0.0.2"}, {80, 4000}, FlagSets, {0, SeqSpace - 1},
             {0, 1000, SeqSpace - 1}, {0, 1, 512, SeqSpace - 1})

ForgeInit ==
    /\ sockSt = [s \in Socks |-> IF s = 1 THEN "connected" ELSE "unused"]
    /\ proto = [s \in Socks |-> IF s = 1 THEN IPPROTO_TCP ELSE "OTHER"]
    /\ cls = [s \in Socks |-> IF s = 1 THEN TheSession ELSE OrigCtor]
    /\ linger = [s \in Socks |-> FALSE]
    /\ clients = {1}
    /\ servers = {}
    /\ rpc = [i \in Callers |-> "idle"]
    /\ rkind = [i \in Callers |-> "client"]
    /\ rblocking = [i \in Callers |-> TRUE]
    /\ to_reset = [i \in Callers |-> {}]
    /\ queue = [i \in Callers |-> {}]
    /\ attempts = [i \in Callers |-> {}]
    /\ addedSince = [i \in Callers |-> {}]
    /\ \E f \in ForgeFrames :
          call = [k \in Calls |->
                    IF k = 1
                    THEN [StartedCall("caller", 0, NoConn, FALSE, "None")
                            EXCEPT !.pc = "inject", !.sock = 1, !.can = "yes",
                                   !.frame = f,
                                   !.log = {"probe", "getpeername", "sniff"}]
                    ELSE FreshCall]
    /\ socket_socket = TheSession
    /\ sessPc = [i \in Sessions |-> IF i = TheSession THEN "in" ELSE "out"]
    /\ original_socket = [i \in Sessions |-> OrigCtor]
    /\ entryCtor = [i \in Sessions |-> OrigCtor]
    /\ lastEv = NoEv

ForgeNext ==
    \/ \E k \in Calls : reset_tcp_stream_of_eth_frame(k)
    \/ \E k \in Calls : Finish(k)

ForgeSpec == ForgeInit /\ [][ForgeNext]_vars

\* ------------------------------------------------------- track_connections
\* original_socket = socket.socket
EnterSave(i) ==
    /\ sessPc[i] = "out"
    /\ original_socket' = [original_socket EXCEPT ![i] = socket_socket]
    /\ entryCtor' = [entryCtor EXCEPT ![i] = socket_socket]
    /\ sessPc' = [sessPc EXCEPT ![i] = "saved"]
    /\ lastEv' = NoEv
    /\ UNCHANGED <<sockVars, clients, servers, resetVars, addedSince, call, socket_socket>>

\* socket.socket = NetsplodeConnectionsTrackingSocket; yield tracker
EnterInstall(i) ==
    /\ sessPc[i] = "saved"
    /\ socket_socket' = i
    /\ sessPc' = [sessPc EXCEPT ![i] = "in"]
    /\ lastEv' = NoEv
    /\ UNCHANGED <<sockVars, clients, servers, resetVars, addedSince, call,
                   original_socket, entryCtor>>

\* The body of the with statement raises.
BodyFails(i) ==
    /\ sessPc[i] = "in"
    /\ sessPc' = [sessPc EXCEPT ![i] = "failing"]
    /\ lastEv' = NoEv
    /\ UNCHANGED <<sockVars, clients, servers, resetVars, addedSince, call,
                   socket_socket, original_socket, entryCtor>>

\* try: yield ... finally: the restoring statement runs however the body ended.
RestoresUnlessFailed(failed) == ~failed

Restores(failed) == TRUE

\* The with statement is left: socket.socket = original_socket
Exit(i) ==
    /\ sessPc[i] \in {"in", "failing"}
    /\ socket_socket' = IF Restores(sessPc[i] = "failing")
                        THEN original_socket[i] ELSE socket_socket
    /\ sessPc' = [sessPc EXCEPT ![i] = "exited"]
    /\ lastEv' = [op |-> "exit", session |-> i, failed |-> sessPc[i] = "failing"]
    /\ UNCHANGED <<sockVars, clients, servers, resetVars, addedSince, call,
                   original_socket, entryCtor>>

\* Before any session: socket.socket is the original class.
SessionInit ==
    /\ sockSt = [s \in Socks |-> "unused"]
    /\ proto = [s \in Socks |-> "OTHER"]
    /\ cls = [s \in Socks |-> OrigCtor]
    /\ linger = [s \in Socks |-> FALSE]
    /\ clients = {}
    /\ servers = {}
    /\ rpc = [i \in Callers |-> "idle"]
    /\ rkind = [i \in Callers |-> "client"]
    /\ rblocking = [i \in Callers |-> TRUE]
    /\ to_reset = [i \in Callers |-> {}]
    /\ queue = [i \in Callers |-> {}]
    /\ attempts = [i \in Callers |-> {}]
    /\ addedSince = [i \in Callers |-> {}]
    /\ call = [k \in Calls |-> FreshCall]
    /\ socket_socket = OrigCtor
    /\ sessPc = [i \in Sessions |-> "out"]
    /\ original_socket = [i \in Sessions |-> OrigCtor]
    /\ entryCtor = [i \in Sessions |-> OrigCtor]
    /\ lastEv = NoEv

\* Two sessions, entered and left in any order, and sockets constructed with
\* whatever socket.socket is at the time.
SessionNext ==
    \/ \E i \in Sessions : EnterSave(i)
    \/ \E i \in Sessions : EnterInstall(i)
    \/ \E i \in Sessions : BodyFails(i)
    \/ \E i \in Sessions : Exit(i)
    \/ \E s \in Socks : Create(s, IPPROTO_TCP)

SessionSpec == SessionInit /\ [][SessionNext]_vars

\* ------------------------------------------------------------------ claims
IsTcp(s) == proto[s] = IPPROTO_TCP

\* C1: no connection is a member of both the client set and the server set.
C1_Disjoint == clients \cap servers = {}

\* The live set(s) a reset call of this kind works on.
Live(kind) == Snapshot(kind)

\* C2: when a tracker reset call returns, no connection of its snapshot is in
\* the live set (unless a lifecycle event of that very connection added it
\* again after the snapshot), and every connection outside the snapshot that
\* was added after the snapshot was taken, and not removed since by its own
\* close or by another reset call, is in the live set.
C2_SnapshotRemoval ==
    \A i \in Callers :
        lastEv = Returned(i) =>
            /\ (to_reset[i] \ addedSince[i]) \cap Live(rkind[i]) = {}
            /\ (addedSince[i] \ to_reset[i]) \subseteq Live(rkind[i])

\* C2 witness: a reset call with a non-empty snapshot has just returned, and a
\* connection added while it ran is in the live set.
C2_Witness ==
    \E i \in Callers :
        /\ lastEv = Returned(i)
        /\ to_reset[i] # {}
        /\ to_reset[i] \cap Live(rkind[i]) = {}
        /\ addedSince[i] \ to_reset[i] # {}
        /\ (addedSince[i] \ to_reset[i]) \subseteq Live(rkind[i])

Resolved(k) == call[k].sock # NoSock
Over(k) == call[k].pc = "done"
AbortivelyClosedBy(k) ==
    /\ {"setsockopt", "close"} \subseteq call[k].log
    /\ linger[call[k].sock]
    /\ sockSt[call[k].sock] = "closed"

\* C6: when a session is left, normally or because its body failed,
\* socket.socket is what it was when the session was entered.
C6_ExitRestores ==
    lastEv.op = "exit" => socket_socket = entryCtor[lastEv.session]

\* C6 witness: a session entered inside another one has just been left
\* because its body failed, and the outer session's shim is installed again.
C6_Witness ==
    /\ lastEv.op = "exit" /\ lastEv.failed
    /\ entryCtor[lastEv.session] # OrigCtor
    /\ socket_socket = entryCtor[lastEv.session]
    /\ \E s \in Socks : cls[s] = lastEv.session

\* C7: a reset with use_abortive_close explicitly True never calls the
\* capture probe, the sniffer or the sender; when it is over the socket it
\* found is closed, and unless setsockopt raised (the socket was closed
\* already) the call has set the linger option and then closed the socket.
C7_ExplicitAbortiveClose ==
    \A k \in Calls :
        call[k].mode = "True" =>
            /\ call[k].log \cap {"probe", "getpeername", "sniff", "send"} = {}
            /\ ("close" \in call[k].log => "setsockopt" \in call[k].log)
            /\ (Over(k) /\ Resolved(k)) =>
                    /\ sockSt[call[k].sock] = "closed"
                    /\ (call[k].out = "returned" => AbortivelyClosedBy(k))

C7_Witness ==
    \E k \in Calls :
        /\ call[k].mode = "True" /\ Over(k) /\ Resolved(k)
        /\ call[k].out = "returned"
        /\ AbortivelyClosedBy(k)
        /\ call[k].log = {"setsockopt", "close"}

\* C8: a reset with use_abortive_close explicitly False whose capture timed
\* out does nothing more: it sets no socket option, closes nothing and sends
\* nothing, and it returns normally.
C8_ExplicitFalseNoFallback ==
    \A k \in Calls :
        (call[k].mode = "False" /\ "sniff" \in call[k].log /\ call[k].frame = NoFrame)
            => /\ Over(k)
               /\ call[k].out = "returned"
               /\ call[k].log \cap {"setsockopt", "close", "send", "probe"} = {}
               /\ call[k].sent = 0

C8_Witness ==
    \E k \in Calls :
        /\ call[k].mode = "False" /\ Over(k) /\ "sniff" \in call[k].log
        /\ call[k].frame = NoFrame
        /\ sockSt[call[k].sock] = "connected" /\ ~linger[call[k].sock]

\* C9 as claimed: a default-mode reset of a TCP socket that was found, in
\* which no frame is captured, ends with the socket closed.
C9_DefaultAlwaysCloses ==
    \A k \in Calls :
        (Over(k) /\ call[k].mode = "None" /\ Resolved(k) /\ IsTcp(call[k].sock)
              /\ call[k].frame = NoFrame)
            => sockSt[call[k].sock] = "closed"

\* C9, amended: in default mode on a TCP socket that was found, the probe is
\* asked; if capture is unavailable there is no capture attempt and the socket
\* ends closed; if it is available and the peer lookup succeeds, a capture is
\* attempted, and when it captures no frame the socket ends closed.  In both
\* cases the call has abortively closed the socket itself unless setsockopt
\* raised because the socket was closed already.  (A failed peer lookup raises
\* and closes nothing.)
C9_DefaultFallback ==
    \A k \in Calls :
        (Over(k) /\ call[k].mode = "None" /\ Resolved(k) /\ IsTcp(call[k].sock))
            => /\ "probe" \in call[k].log
               /\ call[k].can = "no" =>
                      /\ call[k].log \cap {"getpeername", "sniff", "send"} = {}
                      /\ sockSt[call[k].sock] = "closed"
                      /\ (call[k].out = "returned" => AbortivelyClosedBy(k))
               /\ call[k].can = "yes" =>
                      /\ "getpeername" \in call[k].log
                      /\ (call[k].out = "returned" => "sniff" \in call[k].log)
                      /\ ("sniff" \in call[k].log /\ call[k].frame = NoFrame) =>
                            /\ sockSt[call[k].sock] = "closed"
                            /\ (call[k].out = "returned" => AbortivelyClosedBy(k))
                      /\ "sniff" \notin call[k].log =>
                            (call[k].out = "raised" /\ "close" \notin call[k].log)

\* C9 witness: a default-mode reset captured nothing and fell back.
C9_Witness ==
    \E k \in Calls :
        /\ Over(k) /\ call[k].mode = "None" /\ call[k].can = "yes"
        /\ "sniff" \in call[k].log /\ call[k].frame = NoFrame
        /\ call[k].out = "returned" /\ AbortivelyClosedBy(k)

\* C10: capture and forged frames only for TCP sockets, and a reset that
\* found a socket which is not TCP always closes it abortively.
C10_NonTcpAbortivelyClosed ==
    \A k \in Calls :
        Resolved(k) =>
            /\ (call[k].log \cap {"getpeername", "sniff", "send"} # {} => IsTcp(call[k].sock))
            /\ (Over(k) /\ ~IsTcp(call[k].sock) /\ call[k].out = "returned")
                    => {"setsockopt", "close"} \subseteq call[k].log

\* C3: a connect of a TCP socket that completes adds exactly that socket to
\* the client set and leaves the server set as it was; an accept that
\* completes adds exactly the newly built socket to the server set and leaves
\* the client set as it was.
ConnectAcceptStep ==
    /\ (lastEv'.op = "connect" /\ lastEv'.res = "returned" /\ IsTcp(lastEv'.sock))
          => /\ clients' = clients \cup {lastEv'.sock}
             /\ servers' = servers
    /\ (lastEv'.op = "accept" /\ lastEv'.res = "returned" /\ proto'[lastEv'.sock] = IPPROTO_TCP)
          => /\ servers' = servers \cup {lastEv'.sock}
             /\ lastEv'.sock \notin Made
             /\ clients' = clients

C3_ConnectAcceptFrame == [][ConnectAcceptStep]_vars

\* C3 witness: one client connect and the matching accept have happened, and
\* the tracker holds one connection of each kind.
C3_Witness ==
    /\ lastEv.op = "accept" /\ lastEv.res = "returned"
    /\ Cardinality(clients) = 1 /\ Cardinality(servers) = 1
    /\ clients \cap servers = {}
    /\ \A c \in clients : sockSt[c] = "connected"

\* C4: close, and a shutdown of both directions that completes, leave the
\* connection in neither set; a half shutdown leaves both sets as they were.
CloseShutdownStep ==
    /\ (lastEv'.op = "close"
          \/ (lastEv'.op = "shutdown" /\ lastEv'.ans = SHUT_RDWR /\ lastEv'.res = "returned"))
          => /\ lastEv'.sock \notin clients' \cup servers'
             /\ clients' = clients \ {lastEv'.sock}
             /\ servers' = servers \ {lastEv'.sock}
    /\ (lastEv'.op = "shutdown" /\ lastEv'.ans \in {SHUT_RD, SHUT_WR})
          => clients' = clients /\ servers' = servers

C4_RemovalOnCloseAndShutdown == [][CloseShutdownStep]_vars

\* C4 witness: a tracked connection was just shut down in both directions and
\* is gone.
C4_Witness ==
    /\ lastEv.op = "shutdown" /\ lastEv.ans = SHUT_RDWR /\ lastEv.res = "returned"
    /\ lastEv.was
    /\ lastEv.sock \notin clients \cup servers

\* C5: when connect on a TCP socket meets the would-block condition, the
\* caller gets BlockingIOError and the socket is in the client set.
C5_WouldBlockTracked ==
    (lastEv.op = "connect" /\ lastEv.ans = "would_block")
        => /\ lastEv.res = "BlockingIOError"
           /\ (IsTcp(lastEv.sock) => lastEv.sock \in clients)

C5_Witness ==
    /\ lastEv.op = "connect" /\ lastEv.ans = "would_block"
    /\ lastEv.res = "BlockingIOError"
    /\ IsTcp(lastEv.sock) /\ lastEv.sock \in clients
    /\ sockSt[lastEv.sock] = "connecting"

\* C11: a reset whose connection resolves to no socket does nothing (no probe,
\* no peer lookup, no capture, no transmission, no option change, no close)
\* and ends without an error, whatever use_abortive_close is.
C11_UnresolvedIsSilentSkip ==
    \A k \in Calls :
        (Over(k) /\ ~Resolved(k))
            => /\ call[k].log = {}
               /\ call[k].sent = 0
               /\ call[k].frame = NoFrame
               /\ call[k].out = "returned"

\* C11 witness: a reset with use_abortive_close explicitly True found no
\* socket and is over, while a socket of the session is open and untouched.
C11_Witness ==
    \E k \in Calls :
        /\ Over(k) /\ ~Resolved(k) /\ call[k].mode = "True"
        /\ call[k].owner = "caller"
        /\ call[k].out = "returned" /\ call[k].log = {}
        /\ \E s \in Made : sockSt[s] = "connected" /\ ~linger[s]

\* The connections whose reset_connection, run for caller i's batch, is over.
Attempted(i) == {a[1] : a \in attempts[i]}

\* C12: once a blocking tracker reset call is past its batch, a reset has
\* been run to its end for every connection of the snapshot, none is still
\* queued or running, and the batch handed no error to the call, whether or
\* not one of the resets raised.
C12_BlockingBatchCompletes ==
    \A i \in Callers :
        (rblocking[i] /\ rpc[i] \notin {"idle", "wait"})
            => /\ rpc[i] # "raised"
               /\ Attempted(i) = to_reset[i]
               /\ queue[i] = {}
               /\ \A k \in Calls : call[k].batch # i

\* C12 witness: a blocking call over two connections has returned; the reset
\* of one raised and the reset of the other closed its socket.
C12_Witness ==
    \E i \in Callers :
        /\ rblocking[i] /\ lastEv = Returned(i)
        /\ Cardinality(to_reset[i]) = 2
        /\ \E a, b \in attempts[i] :
              /\ a[1] # b[1]
              /\ a[2] = "raised"
              /\ b[2] = "returned" /\ linger[b[1]] /\ sockSt[b[1]] = "closed"

ReturnedAtOnce(k) == [op |-> "reset_connection", call |-> k, res |-> "returned"]

\* C13: the step that starts a reset with blocking false is the step at which
\* the caller gets its return, before the delay, the selection, the capture
\* or the close; and no later step of that reset hands anything to the caller.
DetachedStep ==
    \A k \in Calls :
        /\ (call[k].pc = "free" /\ call'[k].detached)
              => /\ lastEv' = ReturnedAtOnce(k)
                 /\ call'[k].pc \in {"sleep", "select"}
                 /\ call'[k].log = {}
        /\ (call[k].detached /\ call'[k] # call[k])
              => ~(lastEv'.op = "reset_connection" /\ lastEv'.call = k)

C13_NonBlockingReturnsAtOnce == [][DetachedStep]_vars

\* C13 witness: the caller of a non-blocking reset with a delay has returned,
\* and the detached reset has not even finished its delay.
C13_Witness ==
    \E k \in Calls :
        /\ lastEv = ReturnedAtOnce(k)
        /\ call[k].detached /\ call[k].owner = "thread"
        /\ call[k].pc = "sleep" /\ call[k].log = {}
        /\ \E s \in Made : call[k].conn = Conn("socket", s) /\ sockSt[s] = "connected"

BothReturned == \A i \in Callers : rpc[i] = "returned"
TargetedByBoth == to_reset[1] \cap to_reset[2]

\* C14: after two concurrent tracker reset calls have both returned, neither
\* has failed, a connection that was in both snapshots is in neither set, and
\* a socket outside the two snapshots was not touched by a reset.
C14_SharedTargetRemoved ==
    BothReturned =>
        /\ TargetedByBoth \cap (clients \cup servers) = {}
        /\ \A s \in Made \ (to_reset[1] \cup to_reset[2]) :
               ~linger[s] /\ sockSt[s] # "closed"

\* C15: when a reset reaches the peer lookup on a socket that is not
\* connected, the call ends there with an error, having captured, sent,
\* set and closed nothing; and the error of a blocking call is what its
\* caller gets.
PeerLookupFailureStep ==
    \A k \in Calls :
        /\ (call[k].pc = "peers" /\ sockSt[call[k].sock] # "connected"
                /\ call'[k] # call[k])
              => /\ call'[k].pc = "done" /\ call'[k].out = "raised"
                 /\ call'[k].log \cap {"sniff", "send", "setsockopt", "close"} = {}
                 /\ call'[k].sent = 0
                 /\ sockSt' = sockSt /\ linger' = linger
        /\ (Over(k) /\ call[k].out = "raised" /\ call[k].owner = "caller"
                /\ call'[k] # call[k])
              => lastEv' = [op |-> "reset_connection", call |-> k, res |-> "raised"]

C15_PeerLookupFailurePropagates == [][PeerLookupFailureStep]_vars

\* C15 witness: the caller of a blocking default-mode reset of an open TCP
\* socket that never connected has just got the error of the peer lookup.
C15_Witness ==
    /\ lastEv.op = "reset_connection" /\ lastEv.res = "raised"
    /\ \E s \in Made : IsTcp(s) /\ sockSt[s] = "open" /\ ~linger[s]
    /\ \A s \in Made : sockSt[s] = "open"

\* C16: a tracker reset call has removed its snapshot from a live set only
\* when the reset of every connection of the snapshot is over, for blocking
\* and for non-blocking calls.
C16_RemovalAfterAttempt ==
    \A i \in Callers :
        rpc[i] \in {"remove2", "returned"}
            => /\ BatchOver(i)
               /\ Attempted(i) = to_reset[i]

\* A reset that has captured a frame with none of FIN, RST, SYN and is past
\* reset_tcp_stream_of_eth_frame.
InjectedBy(k) ==
    /\ Over(k) /\ "sniff" \in call[k].log /\ call[k].frame # NoFrame
    /\ call[k].frame.flags \cap {"F", "R", "S"} = {}

\* C17: for a captured frame with none of FIN, RST, SYN, severity frames are
\* sent; the first has the captured acknowledgment number as its sequence
\* number and each further one has the sequence number of the one before
\* plus the captured window, modulo the sequence space.
C17_SequenceAdvancesByWindow ==
    \A k \in Calls :
        InjectedBy(k) =>
            /\ Len(call[k].wire) = severity
            /\ call[k].wire[1].seq = call[k].frame.ack
            /\ \A i \in 2..Len(call[k].wire) :
                  call[k].wire[i].seq =
                      (call[k].wire[i - 1].seq + call[k].frame.window) % SeqSpace

\* C18: for a captured frame with none of FIN, RST, SYN, every frame sent has
\* the addresses of the captured frame swapped, its ports swapped, the flag
\* RST and no other, and the captured acknowledgment number as its sequence
\* number.
C18_ForgedFrame ==
    \A k \in Calls :
        InjectedBy(k) =>
            /\ call[k].wire # <<>>
            /\ \A i \in 1..Len(call[k].wire) :
                  /\ call[k].wire[i].src = call[k].frame.dst
                  /\ call[k].wire[i].dst = call[k].frame.src
                  /\ call[k].wire[i].sport = call[k].frame.dport
                  /\ call[k].wire[i].dport = call[k].frame.sport
                  /\ call[k].wire[i].flags = {"R"}
                  /\ call[k].wire[i].seq = call[k].frame.ack

\* C18 witness: the frames of an injection are out, for a captured ACK frame
\* between two different endpoints.
C18_Witness ==
    \E k \in Calls :
        /\ InjectedBy(k) /\ call[k].wire # <<>>
        /\ call[k].frame.flags = {"A"}
        /\ call[k].frame.src # call[k].frame.dst
        /\ call[k].frame.sport # call[k].frame.dport
        /\ call[k].frame.ack = 1000
        /\ call[k].wire[1].src = call[k].frame.dst
        /\ call[k].wire[1].seq = 1000

\* C19: a reset that captured a frame with FIN, RST or SYN set sends nothing,
\* sets no socket option and closes nothing, in default mode and with
\* use_abortive_close explicitly False; it returns normally.
C19_ClosingFrameNoAction ==
    \A k \in Calls :
        ("sniff" \in call[k].log /\ call[k].frame.flags \cap {"F", "R", "S"} # {})
            => /\ call[k].log \cap {"send", "setsockopt", "close"} = {}
               /\ call[k].sent = 0 /\ call[k].wire = <<>>
               /\ call[k].pc = "inject" \/ (Over(k) /\ call[k].out = "returned")

\* C19 witness: a default-mode reset captured a FIN frame and is over; its
\* socket is still connected and has no linger option.
C19_Witness ==
    \E k \in Calls :
        /\ Over(k) /\ call[k].mode = "None" /\ "sniff" \in call[k].log
        /\ "F" \in call[k].frame.flags
        /\ call[k].out = "returned"
        /\ sockSt[call[k].sock] = "connected" /\ ~linger[call[k].sock]

\* C20: once two tracking sessions, entered and left in any order, have both
\* been left, socket.socket is the class that was in place before either was
\* entered.
C20_BothExitedOriginal ==
    (\A i \in Sessions : sessPc[i] = "exited") => socket_socket = OrigCtor
====
